---------------------------- MODULE Spec2Model ----------------------------
(***************************************************************************)
(* The real-time connection manager (websocket/socketManager.js): the      *)
(* registry of live connections, its room and user indexes, the inbound    *)
(* frame dispatcher, the outbound send primitives, the liveness sweep and  *)
(* teardown.                                                               *)
(*                                                                         *)
(* Every handler runs to completion on the single event loop, so each      *)
(* handler is one action.  The transport (the ws library) is the           *)
(* environment: it owns wss.clients and readyState, and it decides when    *)
(* the connection, message, pong, error and close events fire.            *)
(*                                                                         *)
(* Left out: timestamps (connectedAt, lastActivity, message timestamps),   *)
(* the generated client and notification ids, and opaque payloads          *)
(* (updateData, product, notification body, activity, analyticsData).      *)
(* None of them is read by any branch of the code.                         *)
(***************************************************************************)
EXTENDS Integers, Sequences, FiniteSets, TLC

\* ------------------------------------------------------------------ bounds
MaxConn == 2
MaxUser == 2
MaxProduct == 1
MaxMissed == 3
MaxHook == 2
MaxPrice == 100

Conn == 1..MaxConn
User == 1..MaxUser
Product == 1..MaxProduct
\* the catalogue holds one product more than clients ever ask to track
Catalogue == 1..(MaxProduct + 1)
\* prices are positive integers
Price == 1..MaxPrice
\* the price changes the shop announces while connections come and go:
\* a price drop and a price rise
PriceChanges == {[oldPrice |-> 100, newPrice |-> 75], [oldPrice |-> 50, newPrice |-> 60]}

\* req.user?.userId when req.user was never set
NoUser == 0
\* upgrade request without a token, and with a token verifyToken rejects
NoToken == 0
BadToken == -1
Token == {NoToken, BadToken} \cup User

\* the two rooms the server itself addresses
NewReleases == "new-releases"
AdminDashboard == "admin-dashboard"
Room == {NewReleases, AdminDashboard}

\* ------------------------------------------------------------------ state
VARIABLES
    wssClients,         \* wss.clients: sockets the transport has open or closing
    readyState,         \* ws.readyState of each socket ("NONE" before it exists)
    isAlive,            \* ws.isAlive
    clients,            \* this.clients: ws -> clientInfo
    rooms,              \* this.rooms: roomName -> Set of ws
    userSockets,        \* this.userSockets: userId -> Set of ws
    heartbeatInterval,  \* TRUE while the sweep timer is armed
    listening,          \* TRUE while the HTTP server accepts upgrades
    reqUser,            \* info.req.user?.userId of a pending upgrade
    verifying,          \* token whose verification promise is still pending
    request,            \* the upgrade request of a socket not yet connected
    sent,               \* the writes (ws.send) made by the latest handler
    returned,           \* what the latest call gave back to its caller
    lastFrame,          \* how handleMessage met the latest step's frame, if any
    missed,             \* sweeps that examined the socket since accept / last pong
    killedBy,           \* value of missed when the sweep terminated the socket
    hookRuns,           \* how often the close / error hook has run for the socket
    teardown            \* "terminated" once destroy has terminated the socket,
                        \* "closed" once its close event has fired after that

vars == <<wssClients, readyState, isAlive, clients, rooms, userSockets,
          heartbeatInterval, listening, reqUser, verifying, request, sent,
          returned, lastFrame, missed, killedBy, hookRuns, teardown>>

registry == <<clients, rooms, userSockets>>
transport == <<wssClients, readyState, isAlive>>
timers == <<heartbeatInterval, listening>>
handshake == <<reqUser, verifying, request>>
sweepLog == <<missed, killedBy>>
hooks == <<hookRuns, teardown>>

\* ---------------------------------------------------------------- helpers
RECURSIVE SetToSeq(_)
SetToSeq(S) ==
    IF S = {} THEN <<>>
    ELSE LET x == CHOOSE y \in S : TRUE IN <<x>> \o SetToSeq(S \ {x})

\* Map.delete(key)
MapDelete(m, k) == [x \in (DOMAIN m) \ {k} |-> m[x]]
\* Map.set(key, value)
MapSet(m, k, v) == [x \in (DOMAIN m) \cup {k} |-> IF x = k THEN v ELSE m[x]]

\* an outbound envelope; "to" and "st" are filled in by the write
Msg(type, room, productId, userId, userCount) ==
    [to |-> 0, st |-> "", type |-> type, room |-> room, productId |-> productId,
     userId |-> userId, userCount |-> userCount]

\* ws.send(str): the write itself, recording the transport state it met
wsSend(ws, message) == [message EXCEPT !.to = ws, !.st = readyState[ws]]


\* --------------------------------------------------------- send primitives
NoWs == 0

\* variant: the open-state check is missing
sendToClientUnchecked(ws, message) == <<wsSend(ws, message)>>

sendToClient(ws, message) ==
    IF readyState[ws] = "OPEN" THEN <<wsSend(ws, message)>> ELSE <<>>

\* the welcome of the connection handler, sent to the socket just opened
sendWelcome(ws, message) ==
    IF readyState'[ws] = "OPEN"
    THEN <<[message EXCEPT !.to = ws, !.st = readyState'[ws]]>> ELSE <<>>

\* variant: the excluded socket is not skipped
broadcastToRoomEcho(rms, roomName, message, excludeWs) ==
    IF roomName \notin DOMAIN rms THEN <<>>
    ELSE LET members == SetToSeq(rms[roomName])
             targets == SelectSeq(members, LAMBDA client : readyState[client] = "OPEN")
         IN [i \in 1..Len(targets) |-> wsSend(targets[i], message)]

\* rms is this.rooms as it stands when the call is made
broadcastToRoom(rms, roomName, message, excludeWs) ==
    IF roomName \notin DOMAIN rms THEN <<>>
    ELSE LET members == SetToSeq(rms[roomName])
             targets == SelectSeq(members,
                            LAMBDA client : readyState[client] = "OPEN"
                                            /\ client # excludeWs)
         IN [i \in 1..Len(targets) |-> wsSend(targets[i], message)]

\* filter is the predicate given as the set of sockets it accepts
broadcast(message, filter) ==
    LET all == SetToSeq(wssClients)
        targets == SelectSeq(all,
                       LAMBDA client : readyState[client] = "OPEN" /\ client \in filter)
    IN [i \in 1..Len(targets) |-> wsSend(targets[i], message)]

\* filter = null: every socket is accepted
NoFilter == Conn

\* variant: any registered socket passes, whatever it tracks
tracksAnything(ws, productId) == ws \in DOMAIN clients

\* the filter of broadcastStockUpdate
tracksProduct(ws, productId) ==
    ws \in DOMAIN clients /\ productId \in clients[ws].trackedProducts

\* the filter of broadcastUserActivity
\* variant: a record without a user id passes the filter
otherUserOrAnonymous(ws, userId) ==
    ws \in DOMAIN clients /\ clients[ws].userId # userId

otherUser(ws, userId) ==
    ws \in DOMAIN clients /\ clients[ws].userId # NoUser
                          /\ clients[ws].userId # userId

\* ---------------------------------------------------------------- results
\* What a handler leaves behind: the three indexes and the writes it made.
Result(cl, rms, us, out) ==
    [clients |-> cl, rooms |-> rms, userSockets |-> us, out |-> out]

Unchanged(out) == Result(clients, rooms, userSockets, out)

\* a handler or a call that returns nothing
NoReturn == [kind |-> "none"]
\* an exception that leaves the call
Thrown == [kind |-> "throw"]

Apply(res) ==
    /\ clients' = res.clients
    /\ rooms' = res.rooms
    /\ userSockets' = res.userSockets
    /\ sent' = res.out
    /\ returned' = NoReturn

\* ------------------------------------------------------ room and tracking
\* variant: the room is not added to the socket's own room set
joinRoomNoBackref(ws, roomName) ==
    IF ws \notin DOMAIN clients THEN Unchanged(<<>>)
    ELSE LET rms1 == IF roomName \notin DOMAIN rooms
                     THEN MapSet(rooms, roomName, {}) ELSE rooms
             rms2 == [rms1 EXCEPT ![roomName] = @ \cup {ws}]
             n == Cardinality(rms2[roomName])
         IN Result(clients, rms2, userSockets,
                sendToClient(ws, Msg("ROOM_JOINED", roomName, 0, NoUser, n))
                \o broadcastToRoom(rms2, roomName,
                       Msg("USER_JOINED", "", 0, clients[ws].userId, n), ws))

\* variant: a socket that is already a member is not answered
joinRoomQuietRejoin(ws, roomName) ==
    IF ws \notin DOMAIN clients THEN Unchanged(<<>>)
    ELSE IF roomName \in clients[ws].rooms THEN Unchanged(<<>>)
    ELSE LET rms1 == IF roomName \notin DOMAIN rooms
                     THEN MapSet(rooms, roomName, {}) ELSE rooms
             rms2 == [rms1 EXCEPT ![roomName] = @ \cup {ws}]
             cl2 == [clients EXCEPT ![ws].rooms = @ \cup {roomName}]
             n == Cardinality(rms2[roomName])
         IN Result(cl2, rms2, userSockets,
                sendToClient(ws, Msg("ROOM_JOINED", roomName, 0, NoUser, n))
                \o broadcastToRoom(rms2, roomName,
                       Msg("USER_JOINED", "", 0, clients[ws].userId, n), ws))

\* variant: the count is taken before the socket is added
joinRoomCountBefore(ws, roomName) ==
    IF ws \notin DOMAIN clients THEN Unchanged(<<>>)
    ELSE LET rms1 == IF roomName \notin DOMAIN rooms
                     THEN MapSet(rooms, roomName, {}) ELSE rooms
             rms2 == [rms1 EXCEPT ![roomName] = @ \cup {ws}]
             cl2 == [clients EXCEPT ![ws].rooms = @ \cup {roomName}]
             n == Cardinality(rms1[roomName])
         IN Result(cl2, rms2, userSockets,
                sendToClient(ws, Msg("ROOM_JOINED", roomName, 0, NoUser, n))
                \o broadcastToRoom(rms2, roomName,
                       Msg("USER_JOINED", "", 0, clients[ws].userId, n), ws))

joinRoom(ws, roomName) ==
    IF ws \notin DOMAIN clients THEN Unchanged(<<>>)
    ELSE LET rms1 == IF roomName \notin DOMAIN rooms
                     THEN MapSet(rooms, roomName, {}) ELSE rooms
             rms2 == [rms1 EXCEPT ![roomName] = @ \cup {ws}]
             cl2 == [clients EXCEPT ![ws].rooms = @ \cup {roomName}]
             n == Cardinality(rms2[roomName])
         IN Result(cl2, rms2, userSockets,
                sendToClient(ws, Msg("ROOM_JOINED", roomName, 0, NoUser, n))
                \o broadcastToRoom(rms2, roomName,
                       Msg("USER_JOINED", "", 0, clients[ws].userId, n), ws))

\* variant: the emptied room is kept
leaveRoomKeepEmpty(ws, roomName) ==
    IF ws \notin DOMAIN clients \/ roomName \notin DOMAIN rooms THEN Unchanged(<<>>)
    ELSE Result([clients EXCEPT ![ws].rooms = @ \ {roomName}],
                [rooms EXCEPT ![roomName] = @ \ {ws}], userSockets,
                sendToClient(ws, Msg("ROOM_LEFT", roomName, 0, NoUser, 0)))

\* variant: the remaining members are told USER_LEFT
leaveRoomAnnounce(ws, roomName) ==
    IF ws \notin DOMAIN clients \/ roomName \notin DOMAIN rooms THEN Unchanged(<<>>)
    ELSE LET rms1 == [rooms EXCEPT ![roomName] = @ \ {ws}]
             cl2 == [clients EXCEPT ![ws].rooms = @ \ {roomName}]
             rms2 == IF rms1[roomName] = {} THEN MapDelete(rms1, roomName) ELSE rms1
         IN Result(cl2, rms2, userSockets,
                sendToClient(ws, Msg("ROOM_LEFT", roomName, 0, NoUser, 0))
                \o broadcastToRoom(rms2, roomName,
                       Msg("USER_LEFT", "", 0, clients[ws].userId,
                           Cardinality(rms1[roomName])), NoWs))

\* variant: only a socket that was a member is answered
leaveRoomMembersOnly(ws, roomName) ==
    IF ws \notin DOMAIN clients \/ roomName \notin DOMAIN rooms THEN Unchanged(<<>>)
    ELSE LET rms1 == [rooms EXCEPT ![roomName] = @ \ {ws}]
             cl2 == [clients EXCEPT ![ws].rooms = @ \ {roomName}]
             rms2 == IF rms1[roomName] = {} THEN MapDelete(rms1, roomName) ELSE rms1
         IN Result(cl2, rms2, userSockets,
                IF ws \in rooms[roomName]
                THEN sendToClient(ws, Msg("ROOM_LEFT", roomName, 0, NoUser, 0))
                ELSE <<>>)

leaveRoom(ws, roomName) ==
    IF ws \notin DOMAIN clients \/ roomName \notin DOMAIN rooms THEN Unchanged(<<>>)
    ELSE LET rms1 == [rooms EXCEPT ![roomName] = @ \ {ws}]
             cl2 == [clients EXCEPT ![ws].rooms = @ \ {roomName}]
             rms2 == IF rms1[roomName] = {} THEN MapDelete(rms1, roomName) ELSE rms1
         IN Result(cl2, rms2, userSockets,
                sendToClient(ws, Msg("ROOM_LEFT", roomName, 0, NoUser, 0)))

trackProduct(ws, productId) ==
    IF ws \notin DOMAIN clients THEN Unchanged(<<>>)
    ELSE Result([clients EXCEPT ![ws].trackedProducts = @ \cup {productId}],
                rooms, userSockets,
                sendToClient(ws, Msg("PRODUCT_TRACKED", "", productId, NoUser, 0)))

untrackProduct(ws, productId) ==
    IF ws \notin DOMAIN clients THEN Unchanged(<<>>)
    ELSE Result([clients EXCEPT ![ws].trackedProducts = @ \ {productId}],
                rooms, userSockets,
                sendToClient(ws, Msg("PRODUCT_UNTRACKED", "", productId, NoUser, 0)))

\* ---------------------------------------------------------------- cleanup
\* variant: the count is taken before the socket is removed from the room
RECURSIVE removeFromRoomsStaleCount(_, _, _, _)
removeFromRoomsStaleCount(todo, ws, userId, acc) ==
    IF todo = <<>> THEN acc
    ELSE LET room == Head(todo)
             rms == acc.rooms
             next ==
                 IF room \notin DOMAIN rms THEN acc
                 ELSE LET rms1 == [rms EXCEPT ![room] = @ \ {ws}]
                      IN IF rms1[room] = {}
                         THEN [acc EXCEPT !.rooms = MapDelete(rms1, room)]
                         ELSE [rooms |-> rms1,
                               out |-> acc.out \o broadcastToRoom(rms1, room,
                                           Msg("USER_LEFT", "", 0, userId,
                                               Cardinality(rms[room])), NoWs)]
         IN removeFromRoomsStaleCount(Tail(todo), ws, userId, next)

\* clientInfo.rooms.forEach(room => ...) of removeClient, one room per step;
\* acc carries this.rooms and the writes made so far
RECURSIVE removeFromRooms(_, _, _, _)
removeFromRooms(todo, ws, userId, acc) ==
    IF todo = <<>> THEN acc
    ELSE LET room == Head(todo)
             rms == acc.rooms
             next ==
                 IF room \notin DOMAIN rms THEN acc
                 ELSE LET rms1 == [rms EXCEPT ![room] = @ \ {ws}]
                      IN IF rms1[room] = {}
                         THEN [acc EXCEPT !.rooms = MapDelete(rms1, room)]
                         ELSE [rooms |-> rms1,
                               out |-> acc.out \o broadcastToRoom(rms1, room,
                                           Msg("USER_LEFT", "", 0, userId,
                                               Cardinality(rms1[room])), NoWs)]
         IN removeFromRooms(Tail(todo), ws, userId, next)

\* variant: the user index is left alone
removeClientKeepUser(ws) ==
    IF ws \notin DOMAIN clients THEN Unchanged(<<>>)
    ELSE LET clientInfo == clients[ws]
             r == removeFromRooms(SetToSeq(clientInfo.rooms), ws, clientInfo.userId,
                                  [rooms |-> rooms, out |-> <<>>])
         IN Result(MapDelete(clients, ws), r.rooms, userSockets, r.out)

\* variant: the rooms are left alone
removeClientKeepRooms(ws) ==
    IF ws \notin DOMAIN clients THEN Unchanged(<<>>)
    ELSE LET clientInfo == clients[ws]
             us == IF clientInfo.userId # NoUser
                      /\ clientInfo.userId \in DOMAIN userSockets
                   THEN LET us1 == [userSockets EXCEPT
                                       ![clientInfo.userId] = @ \ {ws}]
                        IN IF us1[clientInfo.userId] = {}
                           THEN MapDelete(us1, clientInfo.userId) ELSE us1
                   ELSE userSockets
         IN Result(MapDelete(clients, ws), rooms, us, <<>>)

\* variant: the record stays in this.clients
removeClientKeepRecord(ws) ==
    IF ws \notin DOMAIN clients THEN Unchanged(<<>>)
    ELSE LET clientInfo == clients[ws]
             r == removeFromRooms(SetToSeq(clientInfo.rooms), ws, clientInfo.userId,
                                  [rooms |-> rooms, out |-> <<>>])
             us == IF clientInfo.userId # NoUser
                      /\ clientInfo.userId \in DOMAIN userSockets
                   THEN LET us1 == [userSockets EXCEPT
                                       ![clientInfo.userId] = @ \ {ws}]
                        IN IF us1[clientInfo.userId] = {}
                           THEN MapDelete(us1, clientInfo.userId) ELSE us1
                   ELSE userSockets
         IN Result(clients, r.rooms, us, r.out)

removeClient(ws) ==
    IF ws \notin DOMAIN clients THEN Unchanged(<<>>)
    ELSE LET clientInfo == clients[ws]
             r == removeFromRooms(SetToSeq(clientInfo.rooms), ws, clientInfo.userId,
                                  [rooms |-> rooms, out |-> <<>>])
             us == IF clientInfo.userId # NoUser
                      /\ clientInfo.userId \in DOMAIN userSockets
                   THEN LET us1 == [userSockets EXCEPT
                                       ![clientInfo.userId] = @ \ {ws}]
                        IN IF us1[clientInfo.userId] = {}
                           THEN MapDelete(us1, clientInfo.userId) ELSE us1
                   ELSE userSockets
         IN Result(MapDelete(clients, ws), r.rooms, us, r.out)


\* ---------------------------------------------------------- inbound frames
\* A raw text frame: ok is whether JSON.parse succeeds, the rest is what
\* the parsed envelope carries ("" is a missing type).
Frame(ok, type, room, productId) ==
    [ok |-> ok, type |-> type, room |-> room, productId |-> productId]

Frames ==
    {Frame(FALSE, "", "", 0), Frame(TRUE, "", "", 0), Frame(TRUE, "BOGUS", "", 0),
     Frame(TRUE, "HEARTBEAT", "", 0)}
    \cup {Frame(TRUE, t, r, 0) : t \in {"JOIN_ROOM", "LEAVE_ROOM", "USER_TYPING"},
                                 r \in Room}
    \cup {Frame(TRUE, t, "", p) : t \in {"TRACK_PRODUCT", "UNTRACK_PRODUCT"},
                                  p \in Product}

\* the frame types the switch of handleMessage knows
KnownTypes ==
    {"JOIN_ROOM", "LEAVE_ROOM", "TRACK_PRODUCT", "UNTRACK_PRODUCT", "USER_TYPING",
     "HEARTBEAT"}

\* the latest step was no inbound frame
NoFrame == "none"

\* How handleMessage meets a frame: "unparsed" if JSON.parse throws,
\* "stranger" if the sender has no record, "unknown" if the switch falls to
\* its default, "rejoin" / "leave" for a JOIN_ROOM / LEAVE_ROOM naming a room
\* the sender is in, "other" for the rest.
frameKind(ws, data) ==
    IF ~data.ok THEN "unparsed"
    ELSE IF ws \notin DOMAIN clients THEN "stranger"
    ELSE IF data.type \notin KnownTypes THEN "unknown"
    ELSE IF data.type = "JOIN_ROOM" /\ data.room \in clients[ws].rooms THEN "rejoin"
    ELSE IF data.type = "LEAVE_ROOM" /\ data.room \in clients[ws].rooms THEN "leave"
    ELSE "other"

\* variant: a frame of unknown type is answered with an ERROR
handleMessageAnswerUnknown(ws, data) ==
    IF ~data.ok THEN Unchanged(<<>>)
    ELSE IF ws \notin DOMAIN clients THEN Unchanged(<<>>)
    ELSE CASE data.type = "JOIN_ROOM" -> joinRoom(ws, data.room)
           [] data.type = "LEAVE_ROOM" -> leaveRoom(ws, data.room)
           [] data.type = "TRACK_PRODUCT" -> trackProduct(ws, data.productId)
           [] data.type = "UNTRACK_PRODUCT" -> untrackProduct(ws, data.productId)
           [] data.type = "USER_TYPING" ->
                Unchanged(broadcastToRoom(rooms, data.room,
                    Msg("USER_TYPING", "", 0, clients[ws].userId, 0), ws))
           [] data.type = "HEARTBEAT" ->
                Unchanged(sendToClient(ws, Msg("PONG", "", 0, NoUser, 0)))
           [] OTHER -> Unchanged(sendToClient(ws, Msg("ERROR", "", 0, NoUser, 0)))

\* variant: the sender's record is not looked up before the switch
handleMessageAnySender(ws, data) ==
    IF ~data.ok THEN Unchanged(<<>>)
    ELSE CASE data.type = "JOIN_ROOM" -> joinRoom(ws, data.room)
           [] data.type = "LEAVE_ROOM" -> leaveRoom(ws, data.room)
           [] data.type = "TRACK_PRODUCT" -> trackProduct(ws, data.productId)
           [] data.type = "UNTRACK_PRODUCT" -> untrackProduct(ws, data.productId)
           [] data.type = "USER_TYPING" ->
                Unchanged(broadcastToRoom(rooms, data.room,
                    Msg("USER_TYPING", "", 0,
                        IF ws \in DOMAIN clients THEN clients[ws].userId ELSE NoUser,
                        0), ws))
           [] data.type = "HEARTBEAT" ->
                Unchanged(sendToClient(ws, Msg("PONG", "", 0, NoUser, 0)))
           [] OTHER -> Unchanged(<<>>)

handleMessage(ws, data) ==
    IF ~data.ok THEN Unchanged(<<>>)
    ELSE IF ws \notin DOMAIN clients THEN Unchanged(<<>>)
    ELSE CASE data.type = "JOIN_ROOM" -> joinRoom(ws, data.room)
           [] data.type = "LEAVE_ROOM" -> leaveRoom(ws, data.room)
           [] data.type = "TRACK_PRODUCT" -> trackProduct(ws, data.productId)
           [] data.type = "UNTRACK_PRODUCT" -> untrackProduct(ws, data.productId)
           [] data.type = "USER_TYPING" ->
                Unchanged(broadcastToRoom(rooms, data.room,
                    Msg("USER_TYPING", "", 0, clients[ws].userId, 0), ws))
           [] data.type = "HEARTBEAT" ->
                Unchanged(sendToClient(ws, Msg("PONG", "", 0, NoUser, 0)))
           [] OTHER -> Unchanged(<<>>)

\* -------------------------------------------------------------- handshake
\* verifyClient starts the token verification and returns without waiting for
\* it; the connection handler reads req.user whenever the transport emits
\* 'connection'.  The transport is not part of the sources, so the model
\* lets the verification settle either before or after that event.
\* The URL of the upgrade request either parses or makes new URL() throw;
\* every other path through verifyClient returns true.
verifyClient(urlOk, token) == urlOk

\* no upgrade request is pending for the socket
NoRequest == [urlOk |-> TRUE, token |-> NoToken, accepted |-> TRUE]

\* variant: the token is decoded without being verified
verifiedUserUnverified(token) == IF token = NoToken THEN NoUser ELSE 1

\* what the promise of verifyClient stores in info.req.user when it settles
verifiedUser(token) == IF token \in User THEN token ELSE NoUser

\* variant: a user's second socket is not added to the user's set
registerFirstOnly(ws, userId) ==
    LET clientInfo == [userId |-> userId, rooms |-> {}, trackedProducts |-> {}]
        us == IF userId # NoUser /\ userId \notin DOMAIN userSockets
              THEN MapSet(userSockets, userId, {ws}) ELSE userSockets
    IN Result(MapSet(clients, ws, clientInfo), rooms, us, <<>>)

\* variant: a user's set is replaced by the new socket alone
registerOverwrite(ws, userId) ==
    LET clientInfo == [userId |-> userId, rooms |-> {}, trackedProducts |-> {}]
        us == IF userId # NoUser THEN MapSet(userSockets, userId, {ws}) ELSE userSockets
    IN Result(MapSet(clients, ws, clientInfo), rooms, us, <<>>)

\* the registration part of the connection handler
register(ws, userId) ==
    LET clientInfo == [userId |-> userId, rooms |-> {}, trackedProducts |-> {}]
        us == IF userId # NoUser
              THEN LET us1 == IF userId \notin DOMAIN userSockets
                              THEN MapSet(userSockets, userId, {}) ELSE userSockets
                   IN [us1 EXCEPT ![userId] = @ \cup {ws}]
              ELSE userSockets
    IN Result(MapSet(clients, ws, clientInfo), rooms, us, <<>>)

\* ws.terminate(): a hard close; the close event follows later
terminate(rs, ws) ==
    IF rs[ws] \in {"OPEN", "CLOSING"} THEN [rs EXCEPT ![ws] = "CLOSING"] ELSE rs

RECURSIVE terminateAll(_, _)
terminateAll(rs, todo) ==
    IF todo = <<>> THEN rs ELSE terminateAll(terminate(rs, Head(todo)), Tail(todo))

\* variant: every socket is taken for dead
sweepDeadAll == wssClients

\* variant: the sweep walks the primary index
sweepDeadRegistered == {ws \in DOMAIN clients : ~isAlive[ws]}

\* the sockets the sweep finds dead
sweepDead == {ws \in wssClients : ~isAlive[ws]}

\* the sockets the sweep flags not alive and pings
sweepPinged == {ws \in wssClients : isAlive[ws]}

EmptyMap == [x \in {} |-> {}]

\* ---------------------------------------------------------------- actions
Init ==
    /\ wssClients = {}
    /\ readyState = [c \in Conn |-> "NONE"]
    /\ isAlive = [c \in Conn |-> FALSE]
    /\ clients = EmptyMap
    /\ rooms = EmptyMap
    /\ userSockets = EmptyMap
    /\ heartbeatInterval = TRUE
    /\ listening = TRUE
    /\ reqUser = [c \in Conn |-> NoUser]
    /\ verifying = [c \in Conn |-> NoToken]
    /\ request = [c \in Conn |-> NoRequest]
    /\ sent = <<>>
    /\ returned = NoReturn
    /\ lastFrame = NoFrame
    /\ missed = [c \in Conn |-> 0]
    /\ killedBy = [c \in Conn |-> 0]
    /\ hookRuns = [c \in Conn |-> 0]
    /\ teardown = [c \in Conn |-> ""]

\* An upgrade request reaches verifyClient.  Sockets are numbered in the
\* order their requests arrive.
Upgrade(c, urlOk, token) ==
    /\ listening
    /\ readyState[c] = "NONE"
    /\ \A d \in Conn : d < c => readyState[d] # "NONE"
    /\ IF verifyClient(urlOk, token)
       THEN /\ readyState' = [readyState EXCEPT ![c] = "CONNECTING"]
            /\ verifying' = [verifying EXCEPT ![c] = IF urlOk THEN token ELSE NoToken]
       ELSE /\ readyState' = [readyState EXCEPT ![c] = "CLOSED"]
            /\ UNCHANGED verifying
    /\ request' = [request EXCEPT ![c] =
                      [urlOk |-> urlOk, token |-> IF urlOk THEN token ELSE NoToken,
                       accepted |-> verifyClient(urlOk, token)]]
    /\ sent' = <<>>
    /\ returned' = NoReturn
    /\ lastFrame' = NoFrame
    /\ UNCHANGED <<wssClients, isAlive, registry, timers, reqUser, sweepLog, hooks>>

\* The import().then() callback of verifyClient runs and stores the decoded
\* claims in info.req.user.  Nothing reads req after the connection handler
\* has run, so the promise is followed only up to that point.
ResolveVerify(c) ==
    /\ verifying[c] # NoToken
    /\ verifying' = [verifying EXCEPT ![c] = NoToken]
    /\ reqUser' = [reqUser EXCEPT ![c] = verifiedUser(verifying[c])]
    /\ sent' = <<>>
    /\ returned' = NoReturn
    /\ lastFrame' = NoFrame
    /\ UNCHANGED <<request, transport, registry, timers, sweepLog, hooks>>

\* wss 'connection'
Connection(ws) ==
    /\ readyState[ws] = "CONNECTING"
    /\ wssClients' = wssClients \cup {ws}
    /\ readyState' = [readyState EXCEPT ![ws] = "OPEN"]
    /\ LET res == register(ws, reqUser[ws])
       IN /\ clients' = res.clients
          /\ rooms' = res.rooms
          /\ userSockets' = res.userSockets
          /\ sent' = sendWelcome(ws, Msg("WELCOME", "", 0, NoUser, 0))
    /\ isAlive' = [isAlive EXCEPT ![ws] = TRUE]
    /\ reqUser' = [reqUser EXCEPT ![ws] = NoUser]
    /\ verifying' = [verifying EXCEPT ![ws] = NoToken]
    /\ request' = [request EXCEPT ![ws] = NoRequest]
    /\ returned' = NoReturn
    /\ lastFrame' = NoFrame
    /\ missed' = [missed EXCEPT ![ws] = 0]
    /\ UNCHANGED <<timers, killedBy, hooks>>

\* ws 'message'
Message(ws, data) ==
    /\ ws \in wssClients
    /\ Apply(handleMessage(ws, data))
    /\ lastFrame' = frameKind(ws, data)
    /\ UNCHANGED <<transport, timers, handshake, sweepLog, hooks>>

\* variant: the pong does not set the liveness flag
PongLost(ws) ==
    /\ ws \in wssClients
    /\ readyState[ws] = "OPEN"
    /\ missed' = [missed EXCEPT ![ws] = 0]
    /\ sent' = <<>>
    /\ returned' = NoReturn
    /\ lastFrame' = NoFrame
    /\ UNCHANGED <<wssClients, readyState, isAlive, registry, timers, handshake,
                   killedBy, hooks>>

\* ws 'pong'
Pong(ws) ==
    /\ ws \in wssClients
    /\ readyState[ws] = "OPEN"
    /\ isAlive' = [isAlive EXCEPT ![ws] = TRUE]
    /\ missed' = [missed EXCEPT ![ws] = 0]
    /\ sent' = <<>>
    /\ returned' = NoReturn
    /\ lastFrame' = NoFrame
    /\ UNCHANGED <<wssClients, readyState, registry, timers, handshake, killedBy, hooks>>

\* ws 'error': the transport has started closing the socket when it reports
Error(ws) ==
    /\ ws \in wssClients
    /\ readyState' = [readyState EXCEPT ![ws] = "CLOSING"]
    /\ Apply(removeClient(ws))
    /\ hookRuns' = [hookRuns EXCEPT ![ws] = IF @ < MaxHook THEN @ + 1 ELSE @]
    /\ UNCHANGED teardown
    /\ lastFrame' = NoFrame
    /\ UNCHANGED <<wssClients, isAlive, timers, handshake, sweepLog>>

\* ws 'close': the transport drops the socket from wss.clients, then the hook runs
Close(ws) ==
    /\ ws \in wssClients
    /\ wssClients' = wssClients \ {ws}
    /\ readyState' = [readyState EXCEPT ![ws] = "CLOSED"]
    /\ Apply(removeClient(ws))
    /\ isAlive' = [isAlive EXCEPT ![ws] = FALSE]
    /\ missed' = [missed EXCEPT ![ws] = 0]
    /\ killedBy' = [killedBy EXCEPT ![ws] = 0]
    /\ hookRuns' = [hookRuns EXCEPT ![ws] = IF @ < MaxHook THEN @ + 1 ELSE @]
    /\ teardown' = [teardown EXCEPT ![ws] = IF @ = "terminated" THEN "closed" ELSE @]
    /\ lastFrame' = NoFrame
    /\ UNCHANGED <<timers, handshake>>

\* the setInterval callback
Sweep ==
    /\ heartbeatInterval
    /\ readyState' = terminateAll(readyState, SetToSeq(sweepDead))
    /\ isAlive' = [ws \in Conn |-> IF ws \in sweepPinged THEN FALSE ELSE isAlive[ws]]
    /\ missed' = [ws \in Conn |->
                    IF ws \in wssClients /\ readyState[ws] = "OPEN"
                       /\ missed[ws] < MaxMissed
                    THEN missed[ws] + 1 ELSE missed[ws]]
    /\ killedBy' = [ws \in Conn |->
                    IF readyState[ws] = "OPEN" /\ readyState'[ws] # "OPEN"
                    THEN missed'[ws] ELSE killedBy[ws]]
    /\ sent' = <<>>
    /\ returned' = NoReturn
    /\ lastFrame' = NoFrame
    /\ UNCHANGED <<wssClients, registry, timers, handshake, hooks>>

\* variant: the three indexes are not cleared
DestroyKeepIndexes ==
    /\ heartbeatInterval' = FALSE
    /\ listening' = FALSE
    /\ readyState' = terminateAll(readyState, SetToSeq(wssClients))
    /\ sent' = <<>>
    /\ returned' = NoReturn
    /\ lastFrame' = NoFrame
    /\ teardown' = [c \in Conn |-> IF c \in wssClients THEN "terminated"
                                     ELSE teardown[c]]
    /\ UNCHANGED <<registry, wssClients, isAlive, handshake, sweepLog, hookRuns>>

\* variant: the sweep timer is left armed
DestroyKeepTimer ==
    /\ listening' = FALSE
    /\ readyState' = terminateAll(readyState, SetToSeq(wssClients))
    /\ clients' = EmptyMap
    /\ rooms' = EmptyMap
    /\ userSockets' = EmptyMap
    /\ sent' = <<>>
    /\ returned' = NoReturn
    /\ lastFrame' = NoFrame
    /\ teardown' = [c \in Conn |-> IF c \in wssClients THEN "terminated"
                                     ELSE teardown[c]]
    /\ UNCHANGED <<heartbeatInterval, wssClients, isAlive, handshake, sweepLog, hookRuns>>

\* destroy(), followed by server.close() in the shutdown handler
Destroy ==
    /\ heartbeatInterval' = FALSE
    /\ listening' = FALSE
    /\ readyState' = terminateAll(readyState, SetToSeq(wssClients))
    /\ clients' = EmptyMap
    /\ rooms' = EmptyMap
    /\ userSockets' = EmptyMap
    /\ sent' = <<>>
    /\ returned' = NoReturn
    /\ lastFrame' = NoFrame
    /\ teardown' = [c \in Conn |-> IF c \in wssClients THEN "terminated"
                                     ELSE teardown[c]]
    /\ UNCHANGED <<wssClients, isAlive, handshake, sweepLog, hookRuns>>

\* ------------------------------------------------- calls from the application
\* a call that only writes: the indexes and the transport stay as they are
Emit(out) ==
    /\ sent' = out
    /\ returned' = NoReturn
    /\ lastFrame' = NoFrame
    /\ UNCHANGED <<transport, registry, timers, handshake, sweepLog, hooks>>

broadcastStockUpdate(productId) ==
    broadcast(Msg("STOCK_UPDATE", "", productId, NoUser, 0),
              {ws \in Conn : tracksProduct(ws, productId)})

\* Math.round(num / den) of the exact quotient, num >= 0 and den > 0:
\* the nearest integer, a half going up
MathRound(num, den) == (2 * num + den) \div (2 * den)

\* ((oldPrice - newPrice) / oldPrice) * 100 is evaluated in IEEE-754 doubles:
\* the quotient is rounded to a double and so is its product with 100.  For
\* integer prices up to 200 the two roundings move the result across a
\* rounding boundary of Math.round only where the exact percentage lies on a
\* half and the double product is the double just below it (40 -> 17 gives
\* 57.49999999999999, 200 -> 171 gives 14.499999999999998); these are the
\* <<oldPrice, newPrice>> pairs where that happens.
DoubleBelowHalf ==
    {<<40, 17>>, <<80, 34>>, <<120, 51>>, <<160, 68>>,
     <<200, 85>>, <<200, 87>>, <<200, 143>>, <<200, 171>>}

\* oldPrice > newPrice ? Math.round(((oldPrice - newPrice) / oldPrice) * 100) : 0
discount(oldPrice, newPrice) ==
    IF oldPrice > newPrice
    THEN IF <<oldPrice, newPrice>> \in DoubleBelowHalf
         THEN MathRound(100 * (oldPrice - newPrice), oldPrice) - 1
         ELSE MathRound(100 * (oldPrice - newPrice), oldPrice)
    ELSE 0

\* the PRICE_UPDATE envelope
PriceMsg(productId, newPrice, oldPrice) ==
    [to |-> 0, st |-> "", type |-> "PRICE_UPDATE", room |-> "", productId |-> productId,
     userId |-> NoUser, userCount |-> 0, newPrice |-> newPrice, oldPrice |-> oldPrice,
     discount |-> discount(oldPrice, newPrice)]

\* variant: the tracking filter of the stock update is applied
broadcastPriceUpdateToTrackers(productId, newPrice, oldPrice) ==
    broadcast(PriceMsg(productId, newPrice, oldPrice),
              {ws \in Conn : tracksProduct(ws, productId)})

broadcastPriceUpdate(productId, newPrice, oldPrice) ==
    broadcast(PriceMsg(productId, newPrice, oldPrice), NoFilter)

\* variant: the message goes to every open socket
broadcastNewProductToAll ==
    broadcast(Msg("NEW_PRODUCT", "", 0, NoUser, 0), NoFilter)

broadcastNewProduct ==
    broadcastToRoom(rooms, NewReleases, Msg("NEW_PRODUCT", "", 0, NoUser, 0), NoWs)

broadcastUserActivity(userId) ==
    broadcast(Msg("USER_ACTIVITY", "", 0, userId, 0),
              {ws \in Conn : otherUser(ws, userId)})

RECURSIVE sendEach(_, _)
sendEach(todo, message) ==
    IF todo = <<>> THEN <<>>
    ELSE sendToClient(Head(todo), message) \o sendEach(Tail(todo), message)

sendNotification(userId) ==
    IF userId \in DOMAIN userSockets
    THEN sendEach(SetToSeq(userSockets[userId]), Msg("NOTIFICATION", "", 0, NoUser, 0))
    ELSE <<>>

\* variant: the authenticated count is the number of distinct users
connectionStatsByUser(cl, rms) ==
    LET totalConnections == Cardinality(DOMAIN cl)
        authenticatedUsers == Cardinality({cl[ws].userId : ws \in DOMAIN cl} \ {NoUser})
    IN [kind |-> "stats",
        totalConnections |-> totalConnections,
        authenticatedUsers |-> authenticatedUsers,
        anonymousUsers |-> totalConnections - authenticatedUsers,
        rooms |-> [roomName \in DOMAIN rms |-> Cardinality(rms[roomName])]]

\* the object getConnectionStats builds from this.clients and this.rooms
connectionStats(cl, rms) ==
    LET totalConnections == Cardinality(DOMAIN cl)
        authenticatedUsers == Cardinality({ws \in DOMAIN cl : cl[ws].userId # NoUser})
    IN [kind |-> "stats",
        totalConnections |-> totalConnections,
        authenticatedUsers |-> authenticatedUsers,
        anonymousUsers |-> totalConnections - authenticatedUsers,
        rooms |-> [roomName \in DOMAIN rms |-> Cardinality(rms[roomName])]]

getConnectionStats == connectionStats(clients, rooms)

GetConnectionStats ==
    /\ returned' = getConnectionStats
    /\ lastFrame' = NoFrame
    /\ sent' = <<>>
    /\ UNCHANGED <<transport, registry, timers, handshake, sweepLog, hooks>>

BroadcastStockUpdate(p) == Emit(broadcastStockUpdate(p))
BroadcastPriceUpdate(p, newPrice, oldPrice) ==
    Emit(broadcastPriceUpdate(p, newPrice, oldPrice))
BroadcastNewProduct == Emit(broadcastNewProduct)
BroadcastUserActivity(u) == Emit(broadcastUserActivity(u))
SendNotification(u) == Emit(sendNotification(u))

Next ==
    \/ \E c \in Conn, urlOk \in BOOLEAN, token \in Token : Upgrade(c, urlOk, token)
    \/ \E c \in Conn : ResolveVerify(c)
    \/ \E c \in Conn : Connection(c)
    \/ \E c \in Conn, data \in Frames : Message(c, data)
    \/ \E c \in Conn : Pong(c)
    \/ \E c \in Conn : Error(c)
    \/ \E c \in Conn : Close(c)
    \/ Sweep
    \/ Destroy
    \/ \E p \in Catalogue : BroadcastStockUpdate(p)
    \/ \E p \in Catalogue, ch \in PriceChanges :
          BroadcastPriceUpdate(p, ch.newPrice, ch.oldPrice)
    \/ BroadcastNewProduct
    \/ \E u \in User : BroadcastUserActivity(u)
    \/ \E u \in User : SendNotification(u)
    \/ GetConnectionStats

Spec == Init /\ [][Next]_vars

\* ------------------------------------------------- writes that raise
\* None of the loops of broadcast, broadcastToRoom and sendNotification
\* wraps client.send in a try, and none of their callers does.  If the
\* write to socket f raises, the loop stops there: the writes made before
\* it stand, the targets after it are never reached, and the exception
\* leaves the call.  out is what the call writes when no write raises.
raiseAt(out, f) ==
    LET hits == {i \in DOMAIN out : out[i].to = f}
    IN IF hits = {} THEN [out |-> out, threw |-> FALSE]
       ELSE LET first == CHOOSE i \in hits : \A j \in hits : i <= j
            IN [out |-> SubSeq(out, 1, first - 1), threw |-> TRUE]

EmitRaising(out, f) ==
    /\ raiseAt(out, f).threw
    /\ sent' = raiseAt(out, f).out
    /\ returned' = Thrown
    /\ lastFrame' = NoFrame
    /\ UNCHANGED <<transport, registry, timers, handshake, sweepLog, hooks>>

\* broadcast, broadcastToRoom and sendNotification with a write that raises
BroadcastRaising(p, newPrice, oldPrice, f) ==
    EmitRaising(broadcastPriceUpdate(p, newPrice, oldPrice), f)
BroadcastToRoomRaising(f) == EmitRaising(broadcastNewProduct, f)
SendNotificationRaising(u, f) == EmitRaising(sendNotification(u), f)

NextWriteFails ==
    \/ Next
    \/ \E p \in Catalogue, ch \in PriceChanges, f \in Conn :
          BroadcastRaising(p, ch.newPrice, ch.oldPrice, f)
    \/ \E f \in Conn : BroadcastToRoomRaising(f)
    \/ \E u \in User, f \in Conn : SendNotificationRaising(u, f)

SpecWriteFails == Init /\ [][NextWriteFails]_vars

\* ------------------------------------------------ the discount on its own
\* One anonymous socket is connected and listens; the shop announces one
\* price change, drawn from the whole range of prices.
InitPrice ==
    /\ wssClients = {1}
    /\ readyState = [c \in Conn |-> IF c = 1 THEN "OPEN" ELSE "NONE"]
    /\ isAlive = [c \in Conn |-> c = 1]
    /\ clients = MapSet(EmptyMap, 1, [userId |-> NoUser, rooms |-> {},
                                       trackedProducts |-> {}])
    /\ rooms = EmptyMap
    /\ userSockets = EmptyMap
    /\ heartbeatInterval = TRUE
    /\ listening = TRUE
    /\ reqUser = [c \in Conn |-> NoUser]
    /\ verifying = [c \in Conn |-> NoToken]
    /\ request = [c \in Conn |-> NoRequest]
    /\ sent = <<>>
    /\ returned = NoReturn
    /\ lastFrame = NoFrame
    /\ missed = [c \in Conn |-> 0]
    /\ killedBy = [c \in Conn |-> 0]
    /\ hookRuns = [c \in Conn |-> 0]
    /\ teardown = [c \in Conn |-> ""]

NextPrice ==
    /\ sent = <<>>
    /\ \E p \in Catalogue, newPrice \in Price, oldPrice \in Price :
          BroadcastPriceUpdate(p, newPrice, oldPrice)

SpecPrice == InitPrice /\ [][NextPrice]_vars


\* ================================================================== claims
Registered(c) == c \in DOMAIN clients
Open(c) == readyState[c] = "OPEN"

\* how many writes of out went to socket c
Deliveries(out, c) == Cardinality({i \in DOMAIN out : out[i].to = c})

AllOfType(out, type) == \A i \in DOMAIN out : out[i].type = type

\* C1: every room in the room index has at least one member, and a socket
\* that was just told ROOM_LEFT for a room is no member of it; so a room
\* whose only member leaves is gone from the index.
C1_RoomsNonEmpty ==
    /\ \A r \in DOMAIN rooms : rooms[r] # {}
    /\ \A i \in DOMAIN sent :
          sent[i].type = "ROOM_LEFT" /\ sent[i].room \in DOMAIN rooms
              => sent[i].to \notin rooms[sent[i].room]

\* the sole member of a room has just left it: the room is gone
C1_Witness ==
    \E c \in Conn, r \in Room :
        /\ sent = <<wsSend(c, Msg("ROOM_LEFT", r, 0, NoUser, 0))>>
        /\ r \notin DOMAIN rooms
        /\ Registered(c)

\* C2: every socket filed under user u in the user index is in the primary
\* index and its record carries user identity u.
C2_UserIndexSound ==
    \A u \in DOMAIN userSockets :
        \A ws \in userSockets[u] : Registered(ws) /\ clients[ws].userId = u

\* a user's socket is indexed after the close hook has cleaned up another
\* socket
C2_Witness ==
    /\ \E c \in Conn : readyState[c] = "CLOSED" /\ hookRuns[c] >= 1
    /\ \E u \in DOMAIN userSockets, ws \in Conn : ws \in userSockets[u] /\ Open(ws)

\* C3: every write made by a handler met a socket in the OPEN state.
C3_NoWriteUnlessOpen ==
    \A i \in DOMAIN sent : sent[i].st = "OPEN"

\* a notification reached one socket of a user while the user's other
\* socket, terminated but not yet closed, was passed over
C3_Witness ==
    \E u \in DOMAIN userSockets, a, b \in Conn :
        /\ a \in userSockets[u] /\ b \in userSockets[u]
        /\ readyState[a] = "CLOSING"
        /\ sent = <<wsSend(b, Msg("NOTIFICATION", "", 0, NoUser, 0))>>

\* C4: for open sockets A and B that are both members of room r,
\* broadcastToRoom(r, msg, A) writes msg once to B, never to A, and never to
\* a socket that is not a member of r.
C4_RoomBroadcastExcludes ==
    \A r \in DOMAIN rooms, A \in Conn :
        (A \in rooms[r] /\ Open(A)) =>
            LET out == broadcastToRoom(rooms, r, Msg("USER_TYPING", "", 0, NoUser, 0), A)
            IN /\ Deliveries(out, A) = 0
               /\ \A B \in rooms[r] \ {A} : Open(B) => Deliveries(out, B) = 1
               /\ \A c \in Conn \ rooms[r] : Deliveries(out, c) = 0

\* A typed into a room it shares with B: B got the one message, A none
C4_Witness ==
    \E r \in DOMAIN rooms, A, B \in Conn :
        /\ A # B /\ {A, B} \subseteq rooms[r] /\ Open(A) /\ Open(B)
        /\ Len(sent) = 1 /\ sent[1].type = "USER_TYPING" /\ sent[1].to = B

\* C5: sendNotification(U) writes one NOTIFICATION to each open socket whose
\* record carries user U and nothing to any other socket; with no socket of
\* U nothing is written.  (The call assigns to no index.)
C5_NotificationPerUser ==
    \A u \in User :
        LET out == sendNotification(u)
        IN /\ AllOfType(out, "NOTIFICATION")
           /\ \A c \in Conn :
                 Deliveries(out, c) =
                    IF Registered(c) /\ clients[c].userId = u /\ Open(c) THEN 1 ELSE 0

\* both sockets of one user were notified, once each
C5_Witness ==
    /\ Len(sent) = 2
    /\ AllOfType(sent, "NOTIFICATION")
    /\ sent[1].to # sent[2].to
    /\ \E u \in DOMAIN userSockets : userSockets[u] = {sent[1].to, sent[2].to}

\* C6: broadcastStockUpdate(p) writes a STOCK_UPDATE to a socket exactly
\* when the socket is open and p is in its tracking set.
C6_StockUpdateToTrackers ==
    \A p \in Catalogue :
        LET out == broadcastStockUpdate(p)
        IN /\ \A i \in DOMAIN out : out[i].type = "STOCK_UPDATE" /\ out[i].productId = p
           /\ \A c \in Conn :
                 Deliveries(out, c) =
                    IF Registered(c) /\ Open(c) /\ p \in clients[c].trackedProducts
                    THEN 1 ELSE 0

\* a stock update reached the one socket tracking the product and not the
\* open socket beside it that tracks nothing
C6_Witness ==
    \E x, y \in Conn, p \in Product :
        /\ x # y /\ Registered(x) /\ Registered(y) /\ Open(x) /\ Open(y)
        /\ p \in clients[x].trackedProducts
        /\ clients[y].trackedProducts = {}
        /\ sent = <<wsSend(x, Msg("STOCK_UPDATE", "", p, NoUser, 0))>>

\* C7: broadcastNewProduct writes one NEW_PRODUCT to every open socket whose
\* record lists the room "new-releases" and nothing to any other socket;
\* when the room does not exist it writes nothing.
C7_NewProductToRoom ==
    LET out == broadcastNewProduct
    IN /\ AllOfType(out, "NEW_PRODUCT")
       /\ \A c \in Conn :
             Deliveries(out, c) =
                IF Registered(c) /\ Open(c) /\ NewReleases \in clients[c].rooms
                THEN 1 ELSE 0
       /\ NewReleases \notin DOMAIN rooms => out = <<>>

\* X in "new-releases" got the one NEW_PRODUCT, Y in another room got none
C7_Witness ==
    \E x, y \in Conn :
        /\ x # y /\ Registered(x) /\ Registered(y) /\ Open(x) /\ Open(y)
        /\ NewReleases \in clients[x].rooms
        /\ clients[y].rooms = {AdminDashboard}
        /\ sent = <<wsSend(x, Msg("NEW_PRODUCT", "", 0, NoUser, 0))>>

\* C8: the sweep terminates a socket only at the second sweep after its
\* acceptance or last pong, never at the first, and no socket stays open
\* past that second sweep; frames such as HEARTBEAT leave the liveness flag
\* alone, so an open socket is flagged alive exactly while no sweep has
\* examined it since its acceptance or last pong.
C8_TwoSweepTermination ==
    \A c \in Conn :
        /\ killedBy[c] \in {0, 2}
        /\ Open(c) => missed[c] <= 1
        /\ (c \in wssClients /\ Open(c)) => (isAlive[c] <=> missed[c] = 0)

\* a socket answered an application HEARTBEAT after its first sweep, stayed
\* flagged not alive, and the other socket has been terminated by its second
C8_Witness ==
    \E c, d \in Conn :
        /\ killedBy[d] = 2
        /\ Open(c) /\ missed[c] = 1 /\ ~isAlive[c]
        /\ sent = <<wsSend(c, Msg("PONG", "", 0, NoUser, 0))>>

\* C9: once the close / error hook has run for a socket, running
\* removeClient for it again leaves the three indexes as they are and
\* writes nothing.
C9_CleanupIdempotent ==
    \A c \in Conn :
        hookRuns[c] >= 1 => removeClient(c) = Unchanged(<<>>)

\* the hook has run twice for a socket (error, then error or close) while
\* another open socket sits in a room and would have seen a second USER_LEFT
C9_Witness ==
    \E c, d \in Conn :
        /\ hookRuns[c] = 2
        /\ Registered(d) /\ Open(d) /\ clients[d].rooms # {}
        /\ sent = <<>>

\* C10: once the close or the error hook has run for a socket, the socket
\* is in no index: not the primary index, no room, no user's set.
C10_EvictedEverywhere ==
    \A c \in Conn :
        hookRuns[c] >= 1 =>
            /\ ~Registered(c)
            /\ \A r \in DOMAIN rooms : c \notin rooms[r]
            /\ \A u \in DOMAIN userSockets : c \notin userSockets[u]

\* the error hook has just evicted an authenticated socket from a room it
\* shared: the socket is closing, and its room mate was told USER_LEFT
C10_Witness ==
    \E c, d \in Conn :
        /\ c \in wssClients /\ readyState[c] = "CLOSING" /\ hookRuns[c] = 1
        /\ Len(sent) = 1 /\ sent[1].type = "USER_LEFT" /\ sent[1].to = d
        /\ sent[1].userId # NoUser

\* C11: when cleanup removes a socket from its rooms, every remaining open
\* member of a room that keeps members is told USER_LEFT exactly once for
\* that room, with userCount the number of members left after the removal;
\* the departing socket is told nothing, and a room the removal empties
\* produces no USER_LEFT (no USER_LEFT carries a count of 0).
C11_UserLeftToRemaining ==
    \A c \in DOMAIN clients :
        LET out == removeClient(c).out
            mine == {r \in clients[c].rooms : r \in DOMAIN rooms}
            left(r) == rooms[r] \ {c}
        IN /\ AllOfType(out, "USER_LEFT")
           /\ Deliveries(out, c) = 0
           /\ \A d \in Conn \ {c}, n \in 0..MaxConn :
                 Cardinality({i \in DOMAIN out :
                                 out[i].to = d /\ out[i].userCount = n}) =
                 Cardinality({r \in mine :
                                 d \in left(r) /\ Open(d) /\ Cardinality(left(r)) = n})

\* the close hook has removed a socket from the two rooms it shared with its
\* room mate: the mate was told USER_LEFT once per room, each with count 1
C11_Witness ==
    \E c, d \in Conn :
        /\ c # d /\ readyState[c] = "CLOSED" /\ hookRuns[c] = 1 /\ Open(d)
        /\ Len(sent) = 2
        /\ \A i \in 1..2 : sent[i].type = "USER_LEFT" /\ sent[i].to = d
                            /\ sent[i].userCount = 1
        /\ clients[d].rooms = Room

\* how many writes of out went to socket c with the given type
DeliveriesOf(out, c, type) ==
    Cardinality({i \in DOMAIN out : out[i].to = c /\ out[i].type = type})

\* C12: a JOIN_ROOM frame for room r from a registered open socket a makes a
\* a member of r (r is created if absent); a alone is told ROOM_JOINED,
\* exactly once, for r and with userCount the member count after the join;
\* every other open member of r is told USER_JOINED exactly once with the
\* same count; a is not told USER_JOINED, and nothing else is written.
C12_JoinRoomReplies ==
    \A a \in DOMAIN clients, r \in Room :
        Open(a) =>
            LET res == handleMessage(a, Frame(TRUE, "JOIN_ROOM", r, 0))
                out == res.out
                before == IF r \in DOMAIN rooms THEN rooms[r] ELSE {}
                n == Cardinality(before \cup {a})
            IN /\ r \in DOMAIN res.rooms /\ res.rooms[r] = before \cup {a}
               /\ r \in res.clients[a].rooms
               /\ \A i \in DOMAIN out :
                     /\ out[i].type \in {"ROOM_JOINED", "USER_JOINED"}
                     /\ out[i].userCount = n
                     /\ out[i].type = "ROOM_JOINED" => out[i].room = r
               /\ \A c \in Conn :
                     /\ DeliveriesOf(out, c, "ROOM_JOINED") = IF c = a THEN 1 ELSE 0
                     /\ DeliveriesOf(out, c, "USER_JOINED") =
                           IF c # a /\ c \in before /\ Open(c) THEN 1 ELSE 0

\* a socket has just joined a room that had a member: it was told ROOM_JOINED
\* with count 2 and the member was told USER_JOINED with count 2
C12_Witness ==
    \E a, d \in Conn, r \in Room :
        /\ a # d /\ Open(a) /\ Open(d) /\ r \in DOMAIN rooms /\ rooms[r] = {a, d}
        /\ Len(sent) = 2
        /\ sent[1].type = "ROOM_JOINED" /\ sent[1].to = a /\ sent[1].userCount = 2
        /\ sent[2].type = "USER_JOINED" /\ sent[2].to = d /\ sent[2].userCount = 2

\* C13 as stated: every LEAVE_ROOM frame for a room r from a registered open
\* socket is answered with exactly one ROOM_LEFT for r to that socket.
C13_LeaveRoomAnswered ==
    \A c \in DOMAIN clients, r \in Room :
        Open(c) =>
            LET out == handleMessage(c, Frame(TRUE, "LEAVE_ROOM", r, 0)).out
            IN /\ DeliveriesOf(out, c, "ROOM_LEFT") = 1
               /\ \A i \in DOMAIN out : out[i].type = "ROOM_LEFT" => out[i].room = r

\* C13, amended: a LEAVE_ROOM frame for a room r from a registered open
\* socket is answered with exactly one ROOM_LEFT for r to that socket when r
\* is in the room index (whether or not the socket is a member of r); when r
\* is not in the room index the frame is ignored: nothing is written and no
\* index changes.
C13_LeaveRoomAnsweredIfRoomExists ==
    \A c \in DOMAIN clients, r \in Room :
        Open(c) =>
            LET res == handleMessage(c, Frame(TRUE, "LEAVE_ROOM", r, 0))
                out == res.out
            IN IF r \in DOMAIN rooms
               THEN /\ Len(out) = 1 /\ out[1].type = "ROOM_LEFT"
                    /\ out[1].to = c /\ out[1].room = r
               ELSE res = Unchanged(<<>>)

\* a socket that was no member of an existing room has just been answered
\* ROOM_LEFT for that room
C13_Witness ==
    \E c \in Conn, r \in Room :
        /\ Registered(c) /\ Open(c)
        /\ r \in DOMAIN rooms /\ c \notin rooms[r]
        /\ r \in clients[CHOOSE d \in rooms[r] : TRUE].rooms
        /\ sent = <<[Msg("ROOM_LEFT", r, 0, NoUser, 0) EXCEPT !.to = c, !.st = "OPEN"]>>

\* C14: in every reachable state getConnectionStats reports the size of the
\* primary index as totalConnections, the number of registered sockets with a
\* user id as authenticatedUsers, their difference as anonymousUsers (which
\* is the number of registered sockets without a user id, so never
\* negative), and a rooms map whose keys are exactly the existing rooms with
\* their member counts; what a call returned still describes the registry
\* after the call; three anonymous and two authenticated sockets give 5/2/3.
C14_StatsAccurate ==
    LET stats == getConnectionStats
        five == [ws \in 1..5 |-> [userId |-> IF ws <= 3 THEN NoUser ELSE 1,
                                   rooms |-> {}, trackedProducts |-> {}]]
        example == connectionStats(five, EmptyMap)
    IN /\ stats.totalConnections = Cardinality(DOMAIN clients)
       /\ stats.authenticatedUsers =
             Cardinality({c \in Conn : Registered(c) /\ clients[c].userId \in User})
       /\ stats.anonymousUsers = stats.totalConnections - stats.authenticatedUsers
       /\ stats.anonymousUsers =
             Cardinality({c \in Conn : Registered(c) /\ clients[c].userId = NoUser})
       /\ stats.anonymousUsers >= 0
       /\ DOMAIN stats.rooms = DOMAIN rooms
       /\ \A r \in DOMAIN rooms : stats.rooms[r] = Cardinality(rooms[r])
       /\ returned.kind = "stats" => returned = stats
       /\ example.totalConnections = 5 /\ example.authenticatedUsers = 2
       /\ example.anonymousUsers = 3

\* getConnectionStats has just returned 2/1/1 with one room of two members
C14_Witness ==
    /\ returned.kind = "stats"
    /\ returned.totalConnections = 2 /\ returned.authenticatedUsers = 1
    /\ returned.anonymousUsers = 1
    /\ \E r \in DOMAIN returned.rooms : returned.rooms[r] = 2

\* the connection handler registers socket c as anonymous
RegistersAnonymous(c) ==
    LET res == register(c, reqUser[c])
    IN /\ res.clients[c].userId = NoUser
       /\ \A u \in DOMAIN res.userSockets : c \notin res.userSockets[u]

\* C15 as stated: verifyClient accepts every upgrade request, and a request
\* whose token is missing or fails verification is registered as anonymous
\* by the connection handler (no user id, in no set of the user index).
C15_AcceptsEveryUpgrade ==
    \A c \in Conn :
        /\ readyState[c] # "NONE" => request[c].accepted
        /\ readyState[c] = "CONNECTING" /\ request[c].token \notin User
               => RegistersAnonymous(c)

\* C15, amended: verifyClient accepts every upgrade request whose URL parses,
\* whatever token it carries, and rejects a request whose URL does not
\* parse; an accepted request whose token is missing or fails verification
\* is registered as anonymous by the connection handler.
C15_AcceptsEveryParsedUpgrade ==
    \A c \in Conn :
        /\ readyState[c] # "NONE" => (request[c].accepted <=> request[c].urlOk)
        /\ \A token \in Token : verifyClient(TRUE, token)
        /\ readyState[c] = "CONNECTING" /\ request[c].token \notin User
               => RegistersAnonymous(c)

\* an upgrade with a token that failed verification has been accepted and is
\* about to be connected, while an earlier request with an unparsable URL
\* was rejected
C15_Witness ==
    \E c, d \in Conn :
        /\ readyState[c] = "CONNECTING" /\ request[c].token = BadToken
        /\ request[c].accepted /\ verifying[c] = NoToken /\ reqUser[c] = NoUser
        /\ readyState[d] = "CLOSED" /\ ~request[d].urlOk /\ ~request[d].accepted

\* C16: whenever the connection handler runs for a socket whose upgrade
\* request carried a token that verification accepts, the socket's record
\* carries the token's user id and the socket is in that user's set of the
\* user index, whether the verification has settled by then or not.
C16_ValidTokenAuthenticated ==
    [][\A c \in Conn :
          (readyState[c] = "CONNECTING" /\ readyState'[c] = "OPEN"
           /\ request[c].token \in User)
          => /\ c \in DOMAIN clients'
             /\ clients'[c].userId = request[c].token
             /\ request[c].token \in DOMAIN userSockets'
             /\ c \in userSockets'[request[c].token]]_vars

\* C17: when destroy returns the sweep timer is cancelled, every socket the
\* transport knew is terminated (none is open) and the three indexes are
\* empty; from then on the timer stays cancelled and no step is a sweep.
C17_DestroyClearsAll ==
    [][/\ Destroy =>
            /\ ~heartbeatInterval'
            /\ \A c \in wssClients : readyState'[c] \in {"CLOSING", "CLOSED"}
            /\ \A c \in DOMAIN clients : readyState'[c] \in {"CLOSING", "CLOSED"}
            /\ clients' = EmptyMap /\ rooms' = EmptyMap /\ userSockets' = EmptyMap
       /\ ~listening => ~heartbeatInterval' /\ ~Sweep]_vars

\* destroy has run while two sockets were connected, one of them in a room:
\* both are terminated and await their close event, the indexes are empty
C17_Witness ==
    /\ ~listening /\ ~heartbeatInterval
    /\ wssClients = Conn
    /\ \A c \in Conn : readyState[c] = "CLOSING" /\ hookRuns[c] = 0
    /\ clients = EmptyMap /\ rooms = EmptyMap /\ userSockets = EmptyMap

\* C18: a write that raises inside broadcast, broadcastToRoom or
\* sendNotification costs no other target its message, and no exception
\* leaves the call.
C18_WriteFailureContained ==
    /\ returned.kind # "throw"
    /\ \A f \in Conn : \A c \in Conn \ {f} :
          /\ \A p \in Catalogue, ch \in PriceChanges :
                LET full == broadcastPriceUpdate(p, ch.newPrice, ch.oldPrice)
                IN Deliveries(raiseAt(full, f).out, c) = Deliveries(full, c)
          /\ Deliveries(raiseAt(broadcastNewProduct, f).out, c)
                = Deliveries(broadcastNewProduct, c)
          /\ \A u \in User :
                Deliveries(raiseAt(sendNotification(u), f).out, c)
                   = Deliveries(sendNotification(u), c)

\* C19: a price update is written exactly once to every open socket and to
\* no other, whatever products the socket tracks and whatever rooms it is in.
C19_PriceUpdateToAllOpen ==
    \A p \in Catalogue, ch \in PriceChanges :
        LET out == broadcastPriceUpdate(p, ch.newPrice, ch.oldPrice)
        IN /\ AllOfType(out, "PRICE_UPDATE")
           /\ \A i \in DOMAIN out : out[i].productId = p
           /\ \A c \in Conn : Deliveries(out, c) = IF Open(c) THEN 1 ELSE 0

\* a price update of the tracked product has just reached both open sockets:
\* one tracks the product and sits in a room, the other tracks nothing and
\* is in no room
C19_Witness ==
    \E c, d \in Conn :
        /\ c # d /\ Registered(c) /\ Registered(d) /\ Open(c) /\ Open(d)
        /\ clients[c].trackedProducts # {} /\ clients[c].rooms # {}
        /\ clients[d].trackedProducts = {} /\ clients[d].rooms = {}
        /\ Len(sent) = 2 /\ AllOfType(sent, "PRICE_UPDATE")
        /\ {sent[1].to, sent[2].to} = {c, d}
        /\ sent[1].productId \in clients[c].trackedProducts

\* C20: the discount of every PRICE_UPDATE is the percentage
\* (oldPrice - newPrice) / oldPrice * 100 rounded to the nearest integer
\* (a half going up, as Math.round does) when oldPrice > newPrice, and 0
\* otherwise; it is never negative.
C20_DiscountRounded ==
    \A i \in DOMAIN sent :
        sent[i].type = "PRICE_UPDATE" =>
            LET o == sent[i].oldPrice
                n == sent[i].newPrice
            IN /\ sent[i].discount >= 0
               /\ sent[i].discount =
                     IF o > n THEN (200 * (o - n) + o) \div (2 * o) ELSE 0

\* frames that do not parse or whose type the switch does not know
BadFrames == {data \in Frames : ~data.ok \/ data.type \notin KnownTypes}

C22_RejoinIdempotentButLoud ==
    \A a \in DOMAIN clients, r \in Room :
        (Open(a) /\ r \in clients[a].rooms /\ r \in DOMAIN rooms /\ a \in rooms[r]) =>
            LET res == handleMessage(a, Frame(TRUE, "JOIN_ROOM", r, 0))
                out == res.out
                n == Cardinality(rooms[r])
            IN /\ res.clients = clients /\ res.rooms = rooms
               /\ res.userSockets = userSockets
               /\ \A i \in DOMAIN out : out[i].userCount = n
               /\ \A c \in Conn :
                     /\ Deliveries(out, c) =
                           IF c = a \/ (c \in rooms[r] /\ Open(c)) THEN 1 ELSE 0
                     /\ DeliveriesOf(out, c, "ROOM_JOINED") = IF c = a THEN 1 ELSE 0

\* a member of a room of two has just sent JOIN_ROOM for it again: it was
\* told ROOM_JOINED and its room mate USER_JOINED, both with count 2
C22_Witness ==
    \E a, d \in Conn, r \in Room :
        /\ lastFrame = "rejoin"
        /\ a # d /\ r \in DOMAIN rooms /\ rooms[r] = {a, d}
        /\ Len(sent) = 2
        /\ sent[1].type = "ROOM_JOINED" /\ sent[1].to = a /\ sent[1].userCount = 2
        /\ sent[2].type = "USER_JOINED" /\ sent[2].to = d /\ sent[2].userCount = 2

\* C23: handling a LEAVE_ROOM frame writes to no socket but the leaver, and
\* no inbound frame of any kind makes the server write USER_LEFT (only the
\* cleanup of a disconnect does), even when the room keeps other members.
C23_LeaveTellsNoOther ==
    /\ \A c \in Conn, r \in Room :
          LET out == handleMessage(c, Frame(TRUE, "LEAVE_ROOM", r, 0)).out
          IN \A i \in DOMAIN out : out[i].to = c
    /\ \A c \in Conn, data \in Frames :
          LET out == handleMessage(c, data).out
          IN \A i \in DOMAIN out : out[i].type # "USER_LEFT"
    /\ lastFrame # NoFrame => \A i \in DOMAIN sent : sent[i].type # "USER_LEFT"
    /\ lastFrame = "leave" => Len(sent) <= 1

\* a member has just left a room that keeps an open member: it was told
\* ROOM_LEFT and nothing else was written
C23_Witness ==
    \E c, d \in Conn, r \in Room :
        /\ lastFrame = "leave"
        /\ c # d /\ Open(c) /\ Open(d)
        /\ r \in DOMAIN rooms /\ rooms[r] = {d}
        /\ Len(sent) = 1 /\ sent[1].type = "ROOM_LEFT" /\ sent[1].to = c
        /\ sent[1].room = r

\* C24: an open socket whose pong has arrived since the last sweep that
\* pinged it (or that no sweep has pinged yet) is flagged alive, so the
\* sweep that comes next does not terminate it; as this holds before every
\* sweep, a socket that answers every ping is never terminated by the sweep.
C24_PongingSocketSurvives ==
    \A c \in wssClients :
        (Open(c) /\ missed[c] = 0) =>
            /\ isAlive[c]
            /\ c \notin sweepDead
            /\ terminateAll(readyState, SetToSeq(sweepDead))[c] = "OPEN"

\* the sweep has terminated a socket that stayed silent for two sweeps,
\* while the other socket, whose pong is in, is open and flagged alive
C24_Witness ==
    \E c, d \in Conn :
        /\ c \in wssClients /\ Open(c) /\ Registered(c)
        /\ isAlive[c] /\ missed[c] = 0
        /\ d \in wssClients /\ readyState[d] = "CLOSING" /\ killedBy[d] = 2
        /\ hookRuns[d] = 0

\* C25 as stated: the sockets a sweep pings or terminates are exactly the
\* sockets of the primary index.
C25_SweepExaminesRegistered ==
    heartbeatInterval => (sweepDead \cup sweepPinged) = DOMAIN clients

\* C25, amended: the sockets a sweep pings or terminates are exactly the
\* sockets the transport holds (wss.clients), each either pinged or
\* terminated; every socket of the primary index is among them, and so is a
\* socket that the error hook has evicted and that has not closed yet.
C25_SweepExaminesTransportSet ==
    heartbeatInterval =>
        /\ (sweepDead \cup sweepPinged) = wssClients
        /\ sweepDead \cap sweepPinged = {}
        /\ DOMAIN clients \subseteq wssClients
        /\ \A c \in wssClients :
              readyState[c] = "CLOSING" /\ hookRuns[c] >= 1 =>
                  ~Registered(c) /\ c \in (sweepDead \cup sweepPinged)

\* a socket was evicted by its error hook when its last pong was in, and a
\* sweep has pinged it since (its flag is down though no sweep had pinged it
\* while it was open); it is still held by the transport, and the timer is armed
C25_Witness ==
    \E c \in wssClients :
        /\ heartbeatInterval
        /\ ~Registered(c) /\ readyState[c] = "CLOSING" /\ hookRuns[c] = 1
        /\ missed[c] = 0 /\ killedBy[c] = 0 /\ ~isAlive[c]

\* C26: socket c is in the member set of room r exactly when c has a record
\* in the primary index and r is in that record's room set.
C26_RoomIndexAgrees ==
    /\ DOMAIN rooms \subseteq Room
    /\ \A c \in Conn, r \in Room :
          (r \in DOMAIN rooms /\ c \in rooms[r])
             <=> (Registered(c) /\ r \in clients[c].rooms)

\* one socket is in both rooms, the other in one of them, and both sides of
\* the index say so
C26_Witness ==
    \E c, d \in Conn, r \in Room :
        /\ c # d /\ Registered(c) /\ Registered(d)
        /\ clients[c].rooms = Room /\ clients[d].rooms = {r}
        /\ DOMAIN rooms = Room /\ rooms[r] = {c, d}
        /\ \A q \in Room \ {r} : rooms[q] = {c}

\* the sizes of the sets of a user index, added up
RECURSIVE SizeSum(_, _)
SizeSum(us, keys) ==
    IF keys = {} THEN 0
    ELSE LET k == CHOOSE x \in keys : TRUE
         IN Cardinality(us[k]) + SizeSum(us, keys \ {k})

\* C27: every registered socket with user id u is in the set the user index
\* holds for u, no set of the user index is empty, and the authenticatedUsers
\* count of getConnectionStats is the sum of the sizes of those sets.
C27_UserIndexComplete ==
    /\ \A c \in DOMAIN clients :
          clients[c].userId # NoUser =>
              /\ clients[c].userId \in DOMAIN userSockets
              /\ c \in userSockets[clients[c].userId]
    /\ \A u \in DOMAIN userSockets : userSockets[u] # {}
    /\ getConnectionStats.authenticatedUsers = SizeSum(userSockets, DOMAIN userSockets)

\* one user holds both sockets, and getConnectionStats has just counted two
\* authenticated connections
C27_Witness ==
    /\ returned.kind = "stats" /\ returned.authenticatedUsers = 2
    /\ \E u \in User : DOMAIN userSockets = {u} /\ userSockets[u] = Conn
    /\ \A c \in Conn : Registered(c)

\* C28: a frame of any kind from a socket that has no record in the primary
\* index leaves the three indexes as they are and writes nothing, so an
\* evicted socket is never put back into a room or given a tracking set.
C28_StrangerFramesIgnored ==
    /\ \A c \in Conn \ DOMAIN clients, data \in Frames :
          handleMessage(c, data) = Unchanged(<<>>)
    /\ lastFrame = "stranger" => sent = <<>>
    /\ \A c \in Conn : hookRuns[c] >= 1 =>
          /\ ~Registered(c)
          /\ \A r \in DOMAIN rooms : c \notin rooms[r]

\* a socket evicted by its error hook, not yet closed, has just sent a frame
\* while the other socket sits in a room
C28_Witness ==
    \E c, d \in Conn :
        /\ lastFrame = "stranger" /\ sent = <<>>
        /\ wssClients = {c, d} /\ c # d
        /\ ~Registered(c) /\ hookRuns[c] = 1 /\ readyState[c] = "CLOSING"
        /\ Registered(d) /\ Open(d) /\ clients[d].rooms # {}

\* C29: broadcastUserActivity(u) writes USER_ACTIVITY, once, to exactly the
\* open registered sockets whose record has a user id other than u; a
\* socket without a user id and a socket of u get nothing.
C29_ActivityToOtherUsers ==
    \A u \in User :
        LET out == broadcastUserActivity(u)
        IN /\ AllOfType(out, "USER_ACTIVITY")
           /\ \A c \in Conn :
                 Deliveries(out, c) =
                    IF Open(c) /\ Registered(c) /\ clients[c].userId # NoUser
                       /\ clients[c].userId # u
                    THEN 1 ELSE 0

\* the activity of a user with an open socket has just been told to the
\* socket of the other user and to nobody else
C29_Witness ==
    \E c, d \in Conn :
        /\ c # d /\ Registered(c) /\ Registered(d) /\ Open(c) /\ Open(d)
        /\ clients[c].userId # NoUser /\ clients[d].userId # NoUser
        /\ clients[c].userId # clients[d].userId
        /\ Len(sent) = 1 /\ sent[1].type = "USER_ACTIVITY" /\ sent[1].to = c
        /\ sent[1].userId = clients[d].userId

\* C30: for every socket that destroy has terminated and whose close event
\* is still to come, the close hook finds no record: it leaves the three
\* indexes as they are and writes nothing, so no USER_LEFT (nor anything
\* else) is sent; a socket whose close event has fired after destroy is in
\* no index.
C30_TeardownSilent ==
    \A c \in Conn :
        /\ teardown[c] = "terminated" =>
              /\ c \in wssClients /\ readyState[c] = "CLOSING"
              /\ ~Registered(c)
              /\ removeClient(c) = Unchanged(<<>>)
        /\ teardown[c] = "closed" =>
              /\ ~Registered(c)
              /\ \A r \in DOMAIN rooms : c \notin rooms[r]
              /\ \A u \in DOMAIN userSockets : c \notin userSockets[u]

\* destroy ran while both sockets shared a room; the close event of one has
\* fired since and the other still awaits its own: nothing was written and
\* the indexes are empty
C30_Witness ==
    \E c, d \in Conn :
        /\ teardown[c] = "closed" /\ readyState[c] = "CLOSED" /\ hookRuns[c] = 1
        /\ teardown[d] = "terminated" /\ hookRuns[d] = 0
        /\ sent = <<>>
        /\ clients = EmptyMap /\ rooms = EmptyMap /\ userSockets = EmptyMap

============================================================================
